---- MODULE Spec2Model ----
(***************************************************************************)
(* Model of the Wazuh SOC health check (health_check.py): one run of       *)
(* main() under the __main__ wrapper.  The environment supplies the three  *)
(* configured URLs and the outcome of every requests.get call.             *)
(***************************************************************************)
EXTENDS Integers, Sequences, FiniteSets, TLC

VARIABLES
    config,              \* main: config dict, URL per key
    health_status,       \* main: health_status dict
    pc,                  \* position in main / __main__
    accessible,          \* main: local of the last probe
    response_time,       \* main: local of the last check_endpoint
    status_code,         \* main: local of the last probe
    error,               \* main: local of the last probe
    ssl_issues,          \* main: list built by the SSL loop
    healthy_components,  \* main: sum(health_status.values())
    total_components,    \* main: len(health_status)
    health_score,        \* main: (healthy/total)*100, a rational
    stdout,              \* the lines printed so far
    calls,               \* requests.get calls made so far (url keys)
    exc,                 \* exception in flight out of main(), or NoExc
    exit_code,           \* <<status>> once sys.exit was called, else None
    response,            \* check_*: what the last requests.get did
    prev,                \* what the previous completed run reported, if any
    name_arg,            \* the key an assignment to health_status names
    args,                \* run_tests.main: the parsed flags
    runner_pc,           \* position in run_tests.main
    commands,            \* run_tests: the suites handed to run_command so far
    success,             \* run_tests.main: local success
    call_result,         \* run_tests.main: what its last call returned
    runner_exit,         \* run_tests: <<status>> once the runner exited
    summary_status,      \* test_system_health_summary: health_status dict
    summary_score,       \* test_system_health_summary: health_score
    summary_stdout,      \* test_system_health_summary: lines printed
    summary_pc           \* position in test_system_health_summary

\* the state of one health-check run
runVars == <<config, health_status, pc, accessible, response_time, status_code,
             error, ssl_issues, healthy_components, total_components,
             health_score, stdout, calls, exc, exit_code, response>>

\* the state of the test runner
runnerVars == <<args, runner_pc, commands, success, call_result,
               runner_exit>>

\* the state of test_system_health_summary
summaryVars == <<summary_status, summary_score, summary_stdout, summary_pc>>

\* everything a step of a health-check run leaves alone
extVars == <<prev, name_arg, runnerVars, summaryVars>>

vars == <<runVars, prev, name_arg, runnerVars, summaryVars>>

-----------------------------------------------------------------------------
(* Values *)

None == <<>>
Str(s) == <<s>>

NoExc == "NoExc"

\* health_score before line 126 has run (no value bound yet)
Unbound == [num |-> 0, den |-> 0]

\* a URL as urlparse sees it: its scheme and whether the netloc parses
\* (urlparse raises ValueError on an unbalanced "[" in the netloc)
Schemes == {"https", "http"}
URLs == [scheme : Schemes, valid_netloc : BOOLEAN]

ConfigKeys == {"dashboard_url", "manager_api_url", "indexer_url"}

\* health_status keys in declaration (= insertion) order
Components == <<"dashboard_ui", "manager_api", "indexer_api", "ssl_validation">>
ComponentSet == {Components[i] : i \in 1..Len(Components)}

-----------------------------------------------------------------------------
(* Outcomes of requests.get *)

StatusCodes == {200, 201, 404}
ResponseTimes == {1}
\* exception classes and their direct bases
Bases(cls) ==
    CASE cls = "SSLError"          -> {"ConnectionError"}
      [] cls = "ConnectTimeout"    -> {"ConnectionError", "Timeout"}
      [] cls = "ReadTimeout"       -> {"Timeout"}
      [] cls = "ConnectionError"   -> {"RequestException"}
      [] cls = "Timeout"           -> {"RequestException"}
      [] cls = "InvalidURL"        -> {"RequestException"}
      [] cls = "RequestException"  -> {"Exception"}
      [] cls = "MemoryError"       -> {"Exception"}
      [] cls = "ValueError"        -> {"Exception"}
      [] cls = "ZeroDivisionError" -> {"Exception"}
      [] cls = "Exception"         -> {"BaseException"}
      [] cls = "KeyboardInterrupt" -> {"BaseException"}
      [] OTHER                     -> {}

RECURSIVE IsInstance(_, _)
IsInstance(cls, base) ==
    \/ cls = base
    \/ \E b \in Bases(cls) : IsInstance(b, base)

\* str(e) of a raised exception: requests' own exceptions carry the text of
\* their cause; an exception raised without arguments has str(e) == ""
Messages(cls) ==
    IF IsInstance(cls, "RequestException") THEN {"refused"} ELSE {"", "no memory"}

RaisedClasses == {"SSLError", "ConnectionError", "ConnectTimeout",
                  "ReadTimeout", "MemoryError"}

Response(code, rt) == [kind |-> "Response", status_code |-> code,
                       elapsed |-> rt, cls |-> "", msg |-> ""]
Raise(cls, msg) == [kind |-> "Raise", status_code |-> 0, elapsed |-> 0,
                    cls |-> cls, msg |-> msg]

\* what requests.get(url, timeout=.., verify=False) can do
GetOutcomes(url) ==
    IF url.valid_netloc
    THEN {Response(c, t) : c \in StatusCodes, t \in ResponseTimes}
         \cup UNION {{Raise(c, m) : m \in Messages(c)} : c \in RaisedClasses}
         \cup {Raise("KeyboardInterrupt", "")}
    ELSE {Raise("InvalidURL", "Invalid URL"), Raise("KeyboardInterrupt", "")}

-----------------------------------------------------------------------------
(* Function results: a returned value or a propagating exception *)

\* no requests.get has been made yet
NoResponse == [kind |-> "None", status_code |-> 0, elapsed |-> 0,
               cls |-> "", msg |-> ""]

Return(v) == [raised |-> FALSE, value |-> v, cls |-> "", msg |-> ""]
Propagate(o) == [raised |-> TRUE, value |-> <<>>, cls |-> o.cls, msg |-> o.msg]

\* check_endpoint that accepts every 2xx status code
check_endpoint_2xx(o) ==
    IF o.kind = "Response"
    THEN IF o.status_code >= 200 /\ o.status_code < 300
         THEN Return(<<TRUE, o.elapsed, o.status_code, None>>)
         ELSE Return(<<FALSE, o.elapsed, o.status_code,
                       Str("HTTP " \o ToString(o.status_code))>>)
    ELSE IF IsInstance(o.cls, "Exception")
         THEN Return(<<FALSE, 0, 0, Str("Error: " \o o.msg)>>)
    ELSE Propagate(o)

\* health_check.check_endpoint, applied to the outcome of its requests.get
check_endpoint(o) ==
    IF o.kind = "Response"
    THEN IF o.status_code = 200
         THEN Return(<<TRUE, o.elapsed, o.status_code, None>>)
         ELSE Return(<<FALSE, o.elapsed, o.status_code,
                       Str("HTTP " \o ToString(o.status_code))>>)
    ELSE IF IsInstance(o.cls, "SSLError")
         THEN Return(<<FALSE, 0, 0, Str("SSL Error: " \o o.msg)>>)
    ELSE IF IsInstance(o.cls, "ConnectionError")
         THEN Return(<<FALSE, 0, 0, Str("Connection Error: " \o o.msg)>>)
    ELSE IF IsInstance(o.cls, "Timeout")
         THEN Return(<<FALSE, 0, 0, Str("Timeout: " \o o.msg)>>)
    ELSE IF IsInstance(o.cls, "Exception")
         THEN Return(<<FALSE, 0, 0, Str("Error: " \o o.msg)>>)
    ELSE Propagate(o)

\* health_check.check_ui_accessibility, applied to the outcome of its requests.get
check_ui_accessibility(o) ==
    IF o.kind = "Response"
    THEN IF o.status_code = 200
         THEN Return(<<TRUE, o.status_code, None>>)
         ELSE Return(<<FALSE, o.status_code,
                       Str("HTTP " \o ToString(o.status_code))>>)
    ELSE IF IsInstance(o.cls, "Exception")
         THEN Return(<<FALSE, 0, Str(o.msg)>>)
    ELSE Propagate(o)

\* urllib.parse.urlparse(url).scheme, or ValueError
urlparse(url) ==
    IF url.valid_netloc
    THEN Return(url.scheme)
    ELSE Propagate(Raise("ValueError", "Invalid IPv6 URL"))

-----------------------------------------------------------------------------
(* dict, arithmetic and output helpers *)

\* DictSet with the fourth key misspelt the way test_integration.py spells it
DictSetMisspelt(d, k, v) ==
    LET key == IF k = "ssl_validation" THEN "ssl_connections" ELSE k
    IN  [x \in (DOMAIN d) \cup {key} |-> IF x = key THEN v ELSE d[x]]

\* DictSet that binds every key of the dict to v
DictSetAll(d, k, v) == [x \in (DOMAIN d) \cup {k} |-> v]

\* d[k] = v on a Python dict: rebinds k, or adds it when absent
DictSet(d, k, v) ==
    [x \in (DOMAIN d) \cup {k} |-> IF x = k THEN v ELSE d[x]]

\* sum(d.values()) over booleans
SumValues(d) == Cardinality({k \in DOMAIN d : d[k]})

\* one printed line: the fixed text and the values formatted into it
Line(text, vals) == [text |-> text, args |-> vals]

\* d.items() in insertion order: health_status is built from the literal at
\* lines 68-73, so its keys come in the order of Components
RECURSIVE ItemsFrom(_, _)
ItemsFrom(d, i) ==
    IF i > Len(Components) THEN <<>>
    ELSE IF Components[i] \in DOMAIN d
         THEN <<<<Components[i], d[Components[i]]>>>> \o ItemsFrom(d, i + 1)
         ELSE ItemsFrom(d, i + 1)
Items(d) == ItemsFrom(d, 1)

\* a / b on ints (true division) and q * c, kept as exact rationals; the
\* quotients the run can form are multiples of 1/4, which a float holds exactly
TrueDiv(a, b) == [num |-> a, den |-> b]
Times(q, c) == [num |-> q.num * c, den |-> q.den]
Lt(q, c) == q.num < c * q.den
Ge(q, c) == q.num >= c * q.den

\* f"{q:.1f}": q rounded to tenths (half to even), as a count of tenths
Format1f(q) ==
    LET n == q.num * 10
        fl == n \div q.den
        r2 == 2 * (n % q.den)
    IN  IF r2 < q.den THEN fl
        ELSE IF r2 > q.den THEN fl + 1
        ELSE IF fl % 2 = 0 THEN fl ELSE fl + 1

-----------------------------------------------------------------------------
(* The run *)

\* the selection flags of run_tests.py (lines 159-165)
Flags == {"all", "ui", "api", "integration", "quick", "health", "install_deps"}

\* the test runner is not part of a health-check run
RunnerIdle ==
    /\ args = [f \in Flags |-> FALSE]
    /\ runner_pc = "idle"
    /\ commands = <<>>
    /\ success = TRUE
    /\ call_result = "unset"
    /\ runner_exit = None

\* test_system_health_summary is not running
SummaryIdle ==
    /\ summary_status = [k \in {} |-> FALSE]
    /\ summary_score = Unbound
    /\ summary_stdout = <<>>
    /\ summary_pc = "idle"

\* state at line 73: config read, health_status built, nothing probed
Init ==
    /\ SummaryIdle
    /\ response = NoResponse
    /\ prev = <<>>
    /\ name_arg = ""
    /\ RunnerIdle
    /\ config \in [ConfigKeys -> URLs]
    /\ health_status = [c \in ComponentSet |-> FALSE]
    /\ pc = "dashboard"
    /\ accessible = FALSE
    /\ response_time = 0
    /\ status_code = 0
    /\ error = None
    /\ ssl_issues = <<>>
    /\ healthy_components = 0
    /\ total_components = 0
    /\ health_score = Unbound
    /\ stdout = <<>>
    /\ calls = <<>>
    /\ exc = NoExc
    /\ exit_code = None

\* Flow with the indexer block written before the manager block
FlowIndexerFirst == <<"dashboard", "indexer", "manager", "ssl", "score",
                      "recommend", "final", "returned">>

\* the blocks of main() in the order they are written (lines 75-163), then
\* the return to __main__ (line 167)
Flow == <<"dashboard", "manager", "indexer", "ssl", "score", "recommend",
          "final", "returned">>

\* the block control falls into after block p
Succ(p) == Flow[(CHOOSE i \in 1..Len(Flow) : Flow[i] = p) + 1]

\* Request issued a second time
RequestTwice(log, key) == Append(Append(log, key), key)

\* one requests.get call (line 22, line 42) recorded in the call log
Request(log, key) == Append(log, key)

\* an exception leaves main(): the rest of main is skipped
RaiseOut(r, out) ==
    /\ pc' = "raised"
    /\ exc' = r.cls
    /\ stdout' = out
    /\ UNCHANGED <<health_status, accessible, response_time, status_code,
                   error, ssl_issues, healthy_components, total_components,
                   health_score, exit_code>>

\* lines 75-82
CheckDashboard ==
    /\ pc = "dashboard"
    /\ UNCHANGED extVars
    /\ \E o \in GetOutcomes(config["dashboard_url"]) :
        LET r == check_ui_accessibility(o)
            out == Append(stdout, Line("Checking Dashboard UI...", <<>>))
        IN  /\ calls' = Request(calls, "dashboard_url")
            /\ response' = o
            /\ UNCHANGED config
            /\ IF r.raised THEN RaiseOut(r, out)
               ELSE /\ accessible' = r.value[1]
                    /\ status_code' = r.value[2]
                    /\ error' = r.value[3]
                    /\ IF r.value[1]
                       THEN /\ stdout' = Append(out,
                                  Line("Dashboard UI: Accessible", <<r.value[2]>>))
                            /\ health_status' =
                                  DictSet(health_status, "dashboard_ui", TRUE)
                       ELSE /\ stdout' = Append(out,
                                  Line("Dashboard UI: Not accessible", <<r.value[3]>>))
                            /\ UNCHANGED health_status
                    /\ pc' = Succ("dashboard")
                    /\ UNCHANGED <<response_time, ssl_issues, healthy_components,
                                   total_components, health_score, exc, exit_code>>

\* lines 84-91
CheckManager ==
    /\ pc = "manager"
    /\ UNCHANGED extVars
    /\ \E o \in GetOutcomes(config["manager_api_url"]) :
        LET r == check_endpoint(o)
            out == Append(stdout, Line("Checking Manager API...", <<>>))
        IN  /\ calls' = Request(calls, "manager_api_url")
            /\ response' = o
            /\ UNCHANGED config
            /\ IF r.raised THEN RaiseOut(r, out)
               ELSE /\ accessible' = r.value[1]
                    /\ response_time' = r.value[2]
                    /\ status_code' = r.value[3]
                    /\ error' = r.value[4]
                    /\ IF r.value[1]
                       THEN /\ stdout' = Append(out,
                                  Line("Manager API: Healthy", <<r.value[3], r.value[2]>>))
                            /\ health_status' =
                                  DictSet(health_status, "manager_api", TRUE)
                       ELSE /\ stdout' = Append(out,
                                  Line("Manager API: Unhealthy", <<r.value[4]>>))
                            /\ UNCHANGED health_status
                    /\ pc' = Succ("manager")
                    /\ UNCHANGED <<ssl_issues, healthy_components,
                                   total_components, health_score, exc, exit_code>>

\* lines 93-100
CheckIndexer ==
    /\ pc = "indexer"
    /\ UNCHANGED extVars
    /\ \E o \in GetOutcomes(config["indexer_url"]) :
        LET r == check_endpoint(o)
            out == Append(stdout, Line("Checking Indexer API...", <<>>))
        IN  /\ calls' = Request(calls, "indexer_url")
            /\ response' = o
            /\ UNCHANGED config
            /\ IF r.raised THEN RaiseOut(r, out)
               ELSE /\ accessible' = r.value[1]
                    /\ response_time' = r.value[2]
                    /\ status_code' = r.value[3]
                    /\ error' = r.value[4]
                    /\ IF r.value[1]
                       THEN /\ stdout' = Append(out,
                                  Line("Indexer API: Healthy", <<r.value[3], r.value[2]>>))
                            /\ health_status' =
                                  DictSet(health_status, "indexer_api", TRUE)
                       ELSE /\ stdout' = Append(out,
                                  Line("Indexer API: Unhealthy", <<r.value[4]>>))
                            /\ UNCHANGED health_status
                    /\ pc' = Succ("indexer")
                    /\ UNCHANGED <<ssl_issues, healthy_components,
                                   total_components, health_score, exc, exit_code>>

\* SSLTargets with the indexer left out of the list
SSLTargetsNoIndexer == << <<"Dashboard", "dashboard_url">>,
                          <<"Manager API", "manager_api_url">> >>

\* the (name, url) pairs of the loop at lines 105-109
SSLTargets == << <<"Dashboard", "dashboard_url">>,
                 <<"Manager API", "manager_api_url">>,
                 <<"Indexer API", "indexer_url">> >>

\* the for loop of lines 105-115 from its i-th pair on
RECURSIVE SSLLoop(_, _, _, _)
SSLLoop(cfg, i, issues, out) ==
    IF i > Len(SSLTargets)
    THEN [raised |-> FALSE, cls |-> "", issues |-> issues, out |-> out]
    ELSE LET name == SSLTargets[i][1]
             parsed_url == urlparse(cfg[SSLTargets[i][2]])
         IN  IF parsed_url.raised
             THEN [raised |-> TRUE, cls |-> parsed_url.cls,
                   issues |-> issues, out |-> out]
             ELSE IF parsed_url.value = "https"
                  THEN SSLLoop(cfg, i + 1, issues,
                               Append(out, Line("HTTPS configured", <<name>>)))
                  ELSE SSLLoop(cfg, i + 1, Append(issues, name),
                               Append(out, Line("Not using HTTPS", <<name>>)))

\* lines 102-121
CheckSSL ==
    /\ pc = "ssl"
    /\ UNCHANGED <<response, extVars>>
    /\ LET loop == SSLLoop(config, 1, <<>>,
                           Append(stdout, Line("Checking SSL Configuration...", <<>>)))
       IN  IF loop.raised
           THEN /\ pc' = "raised"
                /\ exc' = loop.cls
                /\ stdout' = loop.out
                /\ ssl_issues' = loop.issues
                /\ UNCHANGED health_status
           ELSE /\ ssl_issues' = loop.issues
                /\ IF loop.issues = <<>>
                   THEN /\ health_status' =
                              DictSet(health_status, "ssl_validation", TRUE)
                        /\ stdout' = Append(loop.out,
                              Line("All endpoints use HTTPS", <<>>))
                   ELSE /\ UNCHANGED health_status
                        /\ stdout' = Append(loop.out,
                              Line("SSL issues found with", loop.issues))
                /\ pc' = Succ("ssl")
                /\ UNCHANGED exc
    /\ UNCHANGED <<config, accessible, response_time, status_code, error,
                   healthy_components, total_components, health_score,
                   calls, exit_code>>

\* ComputeScore with floor division (healthy // total) in place of /
ComputeScoreFloorDiv(healthy, total) == Times(TrueDiv(healthy \div total, 1), 100)

\* line 126
ComputeScore(healthy, total) == Times(TrueDiv(healthy, total), 100)

\* lines 132-136: one line per item of health_status
RECURSIVE StatusLines(_)
StatusLines(items) ==
    IF items = <<>> THEN <<>>
    ELSE <<Line("Component", <<items[1][1],
                 IF items[1][2] THEN "Healthy" ELSE "Unhealthy">>)>>
         \o StatusLines(Tail(items))

\* DictLen that answers with the number of declared components
DictLenDeclared(d) == Len(Components)

\* len(d)
DictLen(d) == Cardinality(DOMAIN d)

\* CalculateScore with the healthy count kept in a counter that outlives the
\* run, so that it starts from the previous run's count
CalculateScoreCarried ==
    /\ pc = "score"
    /\ UNCHANGED <<response, extVars>>
    /\ LET carried == IF prev = <<>> THEN 0 ELSE SumValues(prev[1].health_status)
           healthy == SumValues(health_status) + carried
           total == DictLen(health_status)
           score == Times(TrueDiv(healthy, total), 100)
       IN  /\ healthy_components' = healthy
           /\ total_components' = total
           /\ health_score' = score
           /\ stdout' = stdout
                \o <<Line("System Health Score", <<Format1f(score), healthy, total>>),
                     Line("Component Status:", <<>>)>>
                \o StatusLines(Items(health_status))
    /\ pc' = Succ("score")
    /\ UNCHANGED <<config, health_status, accessible, response_time,
                   status_code, error, ssl_issues, calls, exc, exit_code>>

\* lines 123-136; the division at line 126 raises ZeroDivisionError on an
\* empty dict, before anything is printed
CalculateScore ==
    /\ pc = "score"
    /\ UNCHANGED <<response, extVars>>
    /\ LET healthy == SumValues(health_status)
           total == DictLen(health_status)
           score == ComputeScore(healthy, total)
       IN  /\ healthy_components' = healthy
           /\ total_components' = total
           /\ IF total = 0
              THEN /\ pc' = "raised"
                   /\ exc' = "ZeroDivisionError"
                   /\ UNCHANGED <<health_score, stdout>>
              ELSE /\ health_score' = score
                   /\ stdout' = stdout
                        \o <<Line("System Health Score",
                                  <<Format1f(score), healthy, total>>),
                             Line("Component Status:", <<>>)>>
                        \o StatusLines(Items(health_status))
                   /\ pc' = Succ("score")
                   /\ UNCHANGED exc
    /\ UNCHANGED <<config, health_status, accessible, response_time,
                   status_code, error, ssl_issues, calls, exit_code>>

\* the two fixed hint strings printed for a component (lines 141-152)
Hints(component) ==
    CASE component = "dashboard_ui" ->
           <<"Check dashboard service status and network connectivity",
             "Verify dashboard is running on the expected port">>
      [] component = "manager_api" ->
           <<"Verify manager service is running",
             "Check manager API configuration and firewall rules">>
      [] component = "indexer_api" ->
           <<"Check indexer service status",
             "Verify indexer cluster health">>
      [] component = "ssl_validation" ->
           <<"Ensure all endpoints use HTTPS",
             "Check SSL certificate configuration">>

HintLines(component) ==
    <<Line(Hints(component)[1], <<>>), Line(Hints(component)[2], <<>>)>>

\* Recommend guarded by the verdict threshold instead of 100
RecommendBelowHealthy(hs, score) ==
    IF Lt(score, 75)
    THEN <<Line("Recommendations:", <<>>)>>
         \o (IF ~hs["dashboard_ui"] THEN HintLines("dashboard_ui") ELSE <<>>)
         \o (IF ~hs["manager_api"] THEN HintLines("manager_api") ELSE <<>>)
         \o (IF ~hs["indexer_api"] THEN HintLines("indexer_api") ELSE <<>>)
         \o (IF ~hs["ssl_validation"] THEN HintLines("ssl_validation") ELSE <<>>)
    ELSE <<>>

\* Recommend with the manager and indexer blocks exchanged
RecommendIndexerFirst(hs, score) ==
    IF Lt(score, 100)
    THEN <<Line("Recommendations:", <<>>)>>
         \o (IF ~hs["dashboard_ui"] THEN HintLines("dashboard_ui") ELSE <<>>)
         \o (IF ~hs["indexer_api"] THEN HintLines("indexer_api") ELSE <<>>)
         \o (IF ~hs["manager_api"] THEN HintLines("manager_api") ELSE <<>>)
         \o (IF ~hs["ssl_validation"] THEN HintLines("ssl_validation") ELSE <<>>)
    ELSE <<>>

\* lines 139-152: what the recommendations block prints
Recommend(hs, score) ==
    IF Lt(score, 100)
    THEN <<Line("Recommendations:", <<>>)>>
         \o (IF ~hs["dashboard_ui"] THEN HintLines("dashboard_ui") ELSE <<>>)
         \o (IF ~hs["manager_api"] THEN HintLines("manager_api") ELSE <<>>)
         \o (IF ~hs["indexer_api"] THEN HintLines("indexer_api") ELSE <<>>)
         \o (IF ~hs["ssl_validation"] THEN HintLines("ssl_validation") ELSE <<>>)
    ELSE <<>>

\* lines 138-152
Recommendations ==
    /\ pc = "recommend"
    /\ UNCHANGED <<response, extVars>>
    /\ stdout' = stdout \o Recommend(health_status, health_score)
    /\ pc' = Succ("recommend")
    /\ UNCHANGED <<config, health_status, accessible, response_time,
                   status_code, error, ssl_issues, healthy_components,
                   total_components, health_score, calls, exc, exit_code>>

\* Classify with the boundaries excluded (> in place of >=)
ClassifyStrict(score) ==
    IF score.num > 75 * score.den
    THEN [text |-> "System is healthy!", ret |-> 0]
    ELSE IF score.num > 50 * score.den
         THEN [text |-> "System has issues but is operational", ret |-> 1]
         ELSE [text |-> "System is unhealthy", ret |-> 2]

\* Classify with the return values of the last two branches exchanged
ClassifySwappedCodes(score) ==
    IF Ge(score, 75)
    THEN [text |-> "System is healthy!", ret |-> 0]
    ELSE IF Ge(score, 50)
         THEN [text |-> "System has issues but is operational", ret |-> 2]
         ELSE [text |-> "System is unhealthy", ret |-> 1]

\* lines 155-163: the line printed and the value returned
Classify(score) ==
    IF Ge(score, 75)
    THEN [text |-> "System is healthy!", ret |-> 0]
    ELSE IF Ge(score, 50)
         THEN [text |-> "System has issues but is operational", ret |-> 1]
         ELSE [text |-> "System is unhealthy", ret |-> 2]

\* lines 154-163, and line 167 binding the returned value
FinalStatus ==
    /\ pc = "final"
    /\ UNCHANGED <<response, extVars>>
    /\ LET v == Classify(health_score)
       IN  /\ stdout' = Append(stdout, Line(v.text, <<Format1f(health_score)>>))
           /\ exit_code' = <<v.ret>>
    /\ pc' = Succ("final")
    /\ UNCHANGED <<config, health_status, accessible, response_time,
                   status_code, error, ssl_issues, healthy_components,
                   total_components, health_score, calls, exc>>

\* line 168
SysExit ==
    /\ pc = "returned"
    /\ UNCHANGED <<response, extVars>>
    /\ pc' = "exited"
    /\ UNCHANGED <<config, health_status, accessible, response_time,
                   status_code, error, ssl_issues, healthy_components,
                   total_components, health_score, stdout, calls, exc, exit_code>>

\* lines 169-171
ExceptKeyboardInterrupt ==
    /\ pc = "raised"
    /\ UNCHANGED <<response, extVars>>
    /\ IsInstance(exc, "KeyboardInterrupt")
    /\ stdout' = Append(stdout, Line("Health check interrupted by user", <<>>))
    /\ exit_code' = <<1>>
    /\ pc' = "exited"
    /\ UNCHANGED <<config, health_status, accessible, response_time,
                   status_code, error, ssl_issues, healthy_components,
                   total_components, health_score, calls, exc>>

\* the handler of Exception ending the process with status 3
ExceptExceptionStatus3 ==
    /\ pc = "raised"
    /\ UNCHANGED <<response, extVars>>
    /\ ~IsInstance(exc, "KeyboardInterrupt")
    /\ IsInstance(exc, "Exception")
    /\ stdout' = Append(stdout, Line("Unexpected error", <<exc>>))
    /\ exit_code' = <<3>>
    /\ pc' = "exited"
    /\ UNCHANGED <<config, health_status, accessible, response_time,
                   status_code, error, ssl_issues, healthy_components,
                   total_components, health_score, calls, exc>>

\* lines 172-174
ExceptException ==
    /\ pc = "raised"
    /\ UNCHANGED <<response, extVars>>
    /\ ~IsInstance(exc, "KeyboardInterrupt")
    /\ IsInstance(exc, "Exception")
    /\ stdout' = Append(stdout, Line("Unexpected error", <<exc>>))
    /\ exit_code' = <<1>>
    /\ pc' = "exited"
    /\ UNCHANGED <<config, health_status, accessible, response_time,
                   status_code, error, ssl_issues, healthy_components,
                   total_components, health_score, calls, exc>>

Next ==
    \/ CheckDashboard
    \/ CheckManager
    \/ CheckIndexer
    \/ CheckSSL
    \/ CalculateScore
    \/ Recommendations
    \/ FinalStatus
    \/ SysExit
    \/ ExceptKeyboardInterrupt
    \/ ExceptException

Spec == Init /\ [][Next]_vars

-----------------------------------------------------------------------------
(* The final-status block on its own, over sampled scores *)

\* scores are sampled in steps of 1/SampleDen
SampleDen == 4

\* every multiple of 1/SampleDen in [0, 100], and the points just below the
\* two thresholds
ScoreSamples ==
    {[num |-> n, den |-> SampleDen] : n \in 0..(100 * SampleDen)}
    \cup {[num |-> 74999, den |-> 1000], [num |-> 49999, den |-> 1000]}

InitClassify ==
    /\ SummaryIdle
    /\ response = NoResponse
    /\ prev = <<>>
    /\ name_arg = ""
    /\ RunnerIdle
    /\ config = [k \in ConfigKeys |-> [scheme |-> "https", valid_netloc |-> TRUE]]
    /\ health_status = [c \in ComponentSet |-> FALSE]
    /\ pc = "final"
    /\ accessible = FALSE
    /\ response_time = 0
    /\ status_code = 0
    /\ error = None
    /\ ssl_issues = <<>>
    /\ healthy_components = 0
    /\ total_components = 0
    /\ health_score \in ScoreSamples
    /\ stdout = <<>>
    /\ calls = <<>>
    /\ exc = NoExc
    /\ exit_code = None

NextClassify ==
    \/ FinalStatus
    \/ SysExit

SpecClassify == InitClassify /\ [][NextClassify]_vars

-----------------------------------------------------------------------------
(* Properties *)

\* the probe of component c succeeded in the step just taken
OwnProbeSucceeded(c) ==
    CASE c = "dashboard_ui" ->
           pc = "dashboard" /\ calls' = Append(calls, "dashboard_url")
           /\ accessible' /\ status_code' = 200
      [] c = "manager_api" ->
           pc = "manager" /\ calls' = Append(calls, "manager_api_url")
           /\ accessible' /\ status_code' = 200
      [] c = "indexer_api" ->
           pc = "indexer" /\ calls' = Append(calls, "indexer_url")
           /\ accessible' /\ status_code' = 200
      [] c = "ssl_validation" ->
           pc = "ssl" /\ ssl_issues' = <<>>
           /\ \A k \in ConfigKeys : config[k].scheme = "https"

\* C1: in every state of a run health_status has exactly the four keys
\* dashboard_ui, manager_api, indexer_api, ssl_validation; every key starts
\* False, and a key only ever changes from False to True, in the step in
\* which that key's own probe succeeds.
C1_StatusMapComplete ==
    /\ \A c \in ComponentSet : health_status[c] = FALSE
    /\ [](/\ DOMAIN health_status =
               {"dashboard_ui", "manager_api", "indexer_api", "ssl_validation"}
          /\ \A c \in DOMAIN health_status : health_status[c] \in BOOLEAN)
    /\ [][\A c \in DOMAIN health_status \cup DOMAIN health_status' :
            (c \notin DOMAIN health_status
             \/ c \notin DOMAIN health_status'
             \/ health_status'[c] # health_status[c])
            => /\ c \in DOMAIN health_status /\ c \in DOMAIN health_status'
               /\ ~health_status[c] /\ health_status'[c]
               /\ OwnProbeSucceeded(c)]_vars

\* C1 witness: all four probes are done, some keys were set and some were not
C1_Witness ==
    /\ pc = "score"
    /\ health_status["dashboard_ui"] /\ health_status["ssl_validation"]
    /\ ~health_status["manager_api"] /\ ~health_status["indexer_api"]

\* the last probe ended in the except branch of its function: no response
\* has status code 0
ProbeCaughtError == pc \in {"manager", "indexer", "ssl"} /\ status_code = 0

\* C2: whenever the call under check_endpoint or check_ui_accessibility
\* raises an error, the function returns normally with ok False and a
\* non-empty detail string.
C2_ProbeErrorHasDetail ==
    ProbeCaughtError => /\ ~accessible
                        /\ error # None
                        /\ error # Str("")

\* the score line has been printed
ScorePrinted == \E i \in 1..Len(stdout) : stdout[i].text = "System Health Score"

\* the hint lines printed so far, in the order printed
IsHint(line) ==
    \E c \in ComponentSet : line.text \in {Hints(c)[1], Hints(c)[2]}
RecLines(out) == SelectSeq(out, IsHint)

\* the final status line printed, if any
VerdictOf(out) ==
    IF out = <<>> THEN "none"
    ELSE CASE out[Len(out)].text = "System is healthy!" -> "Healthy"
           [] out[Len(out)].text = "System has issues but is operational" -> "Degraded"
           [] out[Len(out)].text = "System is unhealthy" -> "Unhealthy"
           [] OTHER -> "none"

\* C3: a failing probe never stops the run: unless the user interrupts it,
\* a run that has ended has made all three requests, printed a score and a
\* verdict; with every component Unhealthy the score is 0, the verdict is
\* Unhealthy and the hints of all four components were printed.
C3_FailureNeverStopsRun ==
    (pc = "exited" /\ exc # "KeyboardInterrupt")
    => /\ Len(calls) = 3
       /\ ScorePrinted
       /\ VerdictOf(stdout) # "none"
       /\ (\A c \in ComponentSet : ~health_status[c])
          => /\ health_score.num = 0 /\ health_score.den # 0
             /\ VerdictOf(stdout) = "Unhealthy"
             /\ Len(RecLines(stdout)) = 2 * Len(Components)

\* C4: with k of the n entries of health_status True, the score computed is
\* exactly 100*k/n, and lies in [0, 100].
C4_ScoreExact ==
    pc \in {"recommend", "final", "returned"} \/ (pc = "exited" /\ exc = NoExc)
    => LET k == Cardinality({c \in DOMAIN health_status : health_status[c]})
           n == Cardinality(DOMAIN health_status)
       IN  /\ health_score.den > 0
           /\ health_score.num * n = 100 * k * health_score.den
           /\ health_score.num >= 0
           /\ health_score.num <= 100 * health_score.den

\* C4 witness: a score strictly between 0 and 100 has been computed
C4_Witness ==
    /\ pc = "recommend"
    /\ healthy_components = 3
    /\ health_score.num * 4 = 300 * health_score.den

\* the verdict line printed last, for the state after the final-status block
Classified == pc \in {"returned", "exited"} /\ exc = NoExc

\* C5: the verdict is Healthy for a score >= 75, Degraded for a score >= 50
\* and < 75, Unhealthy for a score < 50: 75 exactly is Healthy, 74.999 is
\* Degraded, 50 exactly is Degraded, 49.999 is Unhealthy.
C5_VerdictThresholds ==
    Classified
    => LET n == health_score.num
           d == health_score.den
           v == VerdictOf(stdout)
       IN  /\ d > 0
           /\ (n >= 75 * d) => v = "Healthy"
           /\ (n >= 50 * d /\ n < 75 * d) => v = "Degraded"
           /\ (n < 50 * d) => v = "Unhealthy"
           /\ (n = 75 * d) => v = "Healthy"
           /\ (n * 1000 = 74999 * d) => v = "Degraded"
           /\ (n = 50 * d) => v = "Degraded"
           /\ (n * 1000 = 49999 * d) => v = "Unhealthy"

\* C5 witness: a score of exactly 75 has been classified Healthy
C5_Witness ==
    /\ Classified
    /\ health_score.num = 75 * health_score.den
    /\ VerdictOf(stdout) = "Healthy"

\* the verdict the thresholds give a score
VerdictOfScore(q) ==
    IF q.num >= 75 * q.den THEN "Healthy"
    ELSE IF q.num >= 50 * q.den THEN "Degraded"
    ELSE "Unhealthy"

\* C6: a run that completed exits with 0 when its verdict is Healthy, with 1
\* when it is Degraded, with 2 when it is Unhealthy.
C6_ExitCodeOfVerdict ==
    (pc = "exited" /\ exc = NoExc)
    => /\ VerdictOfScore(health_score) = "Healthy" => exit_code = <<0>>
       /\ VerdictOfScore(health_score) = "Degraded" => exit_code = <<1>>
       /\ VerdictOfScore(health_score) = "Unhealthy" => exit_code = <<2>>
       /\ VerdictOf(stdout) = VerdictOfScore(health_score)

\* C6 witness: a run that completed Degraded and exited with 1
C6_Witness ==
    /\ pc = "exited" /\ exc = NoExc
    /\ VerdictOf(stdout) = "Degraded"
    /\ exit_code = <<1>>

\* the recommendations block has run
Recommended == pc \in {"final", "returned"} \/ (pc = "exited" /\ exc = NoExc)

\* C7: the hints printed by a run are none if and only if every entry of
\* health_status is True.
C7_NoHintsIffAllHealthy ==
    Recommended
    => (RecLines(stdout) = <<>> <=> \A c \in ComponentSet : health_status[c])

\* C7 witness: three components Healthy, one not, and hints were printed
C7_Witness ==
    /\ Recommended
    /\ healthy_components = 3
    /\ RecLines(stdout) # <<>>

\* the hints of the Unhealthy components among Components[i..], in order
RECURSIVE ExpectedHints(_, _)
ExpectedHints(hs, i) ==
    IF i > Len(Components) THEN <<>>
    ELSE (IF hs[Components[i]] THEN <<>> ELSE HintLines(Components[i]))
         \o ExpectedHints(hs, i + 1)

\* C8: the hints printed are exactly the fixed hints of the Unhealthy
\* components, in the order dashboard_ui, manager_api, indexer_api,
\* ssl_validation; a Healthy component contributes none.
C8_HintsInDeclarationOrder ==
    Recommended => RecLines(stdout) = ExpectedHints(health_status, 1)

\* C8 witness: manager and indexer Unhealthy, the other two Healthy
C8_Witness ==
    /\ Recommended
    /\ health_status["dashboard_ui"] /\ health_status["ssl_validation"]
    /\ ~health_status["manager_api"] /\ ~health_status["indexer_api"]
    /\ Len(RecLines(stdout)) = 4

\* the event a printed line marks: the start or the end of a probe, or the
\* score; "" for any other line
EventOf(line) ==
    CASE line.text = "Checking Dashboard UI..." -> "dashboard:start"
      [] line.text \in {"Dashboard UI: Accessible",
                        "Dashboard UI: Not accessible"} -> "dashboard:end"
      [] line.text = "Checking Manager API..." -> "manager:start"
      [] line.text \in {"Manager API: Healthy",
                        "Manager API: Unhealthy"} -> "manager:end"
      [] line.text = "Checking Indexer API..." -> "indexer:start"
      [] line.text \in {"Indexer API: Healthy",
                        "Indexer API: Unhealthy"} -> "indexer:end"
      [] line.text = "Checking SSL Configuration..." -> "ssl:start"
      [] line.text \in {"All endpoints use HTTPS",
                        "SSL issues found with"} -> "ssl:end"
      [] line.text = "System Health Score" -> "score"
      [] OTHER -> ""

IsEvent(line) == EventOf(line) # ""
Events(out) ==
    LET marked == SelectSeq(out, IsEvent)
    IN  [i \in 1..Len(marked) |-> EventOf(marked[i])]

\* the one order of events the claim allows
DeclaredOrder ==
    <<"dashboard:start", "dashboard:end", "manager:start", "manager:end",
      "indexer:start", "indexer:end", "ssl:start", "ssl:end", "score">>

IsPrefix(a, b) == Len(a) <= Len(b) /\ \A i \in 1..Len(a) : a[i] = b[i]

\* C9: probes run one after another in declaration order: each probe has
\* ended before the next starts (dashboard, manager API, indexer API,
\* transport security), requests go out in that order, and the score is
\* computed only after all four probes have ended.
C9_SequentialDeclarationOrder ==
    /\ IsPrefix(Events(stdout), DeclaredOrder)
    /\ IsPrefix(calls, <<"dashboard_url", "manager_api_url", "indexer_url">>)
    /\ health_score # Unbound
       => /\ Len(Events(stdout)) = Len(DeclaredOrder)
          /\ Len(calls) = 3

\* C9 witness: the score was computed after the four probes
C9_Witness ==
    /\ pc = "recommend"
    /\ health_score # Unbound
    /\ Events(stdout) = DeclaredOrder

\* how often x occurs in sequence q
Count(q, x) == Cardinality({i \in 1..Len(q) : q[i] = x})

\* C10: in one run every probe is invoked at most once, and by the time the
\* score is computed every probe has been invoked exactly once, whether it
\* succeeded or failed.
C10_NoRetry ==
    /\ \A k \in ConfigKeys : Count(calls, k) <= 1
    /\ \A e \in {"dashboard:start", "manager:start", "indexer:start", "ssl:start"} :
          Count(Events(stdout), e) <= 1
    /\ health_score # Unbound
       => /\ \A k \in ConfigKeys : Count(calls, k) = 1
          /\ \A e \in {"dashboard:start", "manager:start", "indexer:start",
                       "ssl:start"} : Count(Events(stdout), e) = 1

\* C10 witness: the score was computed after two probes failed, each
\* requested once
C10_Witness ==
    /\ pc = "recommend"
    /\ ~health_status["manager_api"] /\ ~health_status["dashboard_ui"]
    /\ Count(calls, "manager_api_url") = 1
    /\ Count(calls, "dashboard_url") = 1

-----------------------------------------------------------------------------
(* Runs one after another *)

\* what a completed run reported
Summary ==
    [health_status |-> health_status,
     health_score |-> health_score,
     score_text |-> Format1f(health_score),
     verdict |-> VerdictOf(stdout),
     recommendations |-> RecLines(stdout),
     exit_code |-> exit_code]

\* the script is invoked again in the same environment: a new process,
\* which starts from the state at line 73
Rerun ==
    /\ pc = "exited"
    /\ prev' = IF exc = NoExc THEN <<Summary>> ELSE prev
    /\ UNCHANGED config
    /\ health_status' = [c \in ComponentSet |-> FALSE]
    /\ pc' = "dashboard"
    /\ accessible' = FALSE
    /\ response_time' = 0
    /\ status_code' = 0
    /\ error' = None
    /\ ssl_issues' = <<>>
    /\ healthy_components' = 0
    /\ total_components' = 0
    /\ health_score' = Unbound
    /\ stdout' = <<>>
    /\ calls' = <<>>
    /\ exc' = NoExc
    /\ exit_code' = None
    /\ response' = NoResponse
    /\ UNCHANGED <<name_arg, runnerVars, summaryVars>>

NextRuns ==
    \/ CheckDashboard
    \/ CheckManager
    \/ CheckIndexer
    \/ CheckSSL
    \/ CalculateScore
    \/ Recommendations
    \/ FinalStatus
    \/ SysExit
    \/ ExceptKeyboardInterrupt
    \/ ExceptException
    \/ Rerun

SpecRuns == Init /\ [][NextRuns]_vars

-----------------------------------------------------------------------------
(* End-to-end scenarios *)

\* C12: with the dashboard Unhealthy and the other three components Healthy
\* the run reports score 75.0 and verdict Healthy, and prints the two
\* dashboard hints and no other hint.
C12_DashboardDownScenario ==
    (Recommended
     /\ health_status = [c \in ComponentSet |-> c # "dashboard_ui"])
    => /\ health_score.num = 75 * health_score.den
       /\ Format1f(health_score) = 750
       /\ RecLines(stdout) =
            <<Line("Check dashboard service status and network connectivity", <<>>),
              Line("Verify dashboard is running on the expected port", <<>>)>>
       /\ pc \in {"returned", "exited"} => VerdictOf(stdout) = "Healthy"

\* C12 witness: such a run has ended
C12_Witness ==
    /\ pc = "exited" /\ exc = NoExc
    /\ health_status = [c \in ComponentSet |-> c # "dashboard_ui"]

\* C13: with only the indexer API Healthy the run reports score 25.0 and
\* verdict Unhealthy, and prints the hints of the dashboard, then of the
\* manager API, then of transport security, and none for the indexer.
C13_OnlyIndexerUpScenario ==
    (Recommended
     /\ health_status = [c \in ComponentSet |-> c = "indexer_api"])
    => /\ health_score.num = 25 * health_score.den
       /\ Format1f(health_score) = 250
       /\ RecLines(stdout) =
            <<Line("Check dashboard service status and network connectivity", <<>>),
              Line("Verify dashboard is running on the expected port", <<>>),
              Line("Verify manager service is running", <<>>),
              Line("Check manager API configuration and firewall rules", <<>>),
              Line("Ensure all endpoints use HTTPS", <<>>),
              Line("Check SSL certificate configuration", <<>>)>>
       /\ pc \in {"returned", "exited"} => VerdictOf(stdout) = "Unhealthy"

\* C13 witness: such a run has ended
C13_Witness ==
    /\ pc = "exited" /\ exc = NoExc
    /\ health_status = [c \in ComponentSet |-> c = "indexer_api"]

-----------------------------------------------------------------------------
(* The assignment to health_status on its own, over any key *)

\* the locals of main and __main__ before any probe has run
FreshLocals ==
    /\ config = [k \in ConfigKeys |-> [scheme |-> "https", valid_netloc |-> TRUE]]
    /\ accessible = FALSE
    /\ response_time = 0
    /\ status_code = 0
    /\ error = None
    /\ ssl_issues = <<>>
    /\ healthy_components = 0
    /\ total_components = 0
    /\ health_score = Unbound
    /\ stdout = <<>>
    /\ calls = <<>>
    /\ exc = NoExc
    /\ exit_code = None
    /\ response = NoResponse
    /\ prev = <<>>
    /\ RunnerIdle

\* the keys tried: the four declared ones and two that are not declared
RecordNames == ComponentSet \cup {"cache", "ssl_connections"}

InitRecord ==
    /\ SummaryIdle
    /\ FreshLocals
    /\ health_status \in [ComponentSet -> BOOLEAN]
    /\ name_arg \in RecordNames
    /\ pc = "record"

\* health_status[name] = True (lines 80, 89, 98, 118), for any name
RecordResult ==
    /\ pc = "record"
    /\ health_status' = DictSet(health_status, name_arg, TRUE)
    /\ pc' = "recorded"
    /\ UNCHANGED <<config, accessible, response_time, status_code, error,
                   ssl_issues, healthy_components, total_components,
                   health_score, stdout, calls, exc, exit_code, response,
                   extVars>>

NextRecord == RecordResult

SpecRecord == InitRecord /\ [][NextRecord]_vars

-----------------------------------------------------------------------------
(* The score computation on its own, over maps with keys missing *)

\* every dict over a subset of the declared keys
PartialMaps == UNION {[S -> BOOLEAN] : S \in SUBSET ComponentSet}

InitScore ==
    /\ SummaryIdle
    /\ FreshLocals
    /\ health_status \in PartialMaps
    /\ name_arg = ""
    /\ pc = "score"

NextScore ==
    \/ CalculateScore
    \/ ExceptException

SpecScore == InitScore /\ [][NextScore]_vars

-----------------------------------------------------------------------------
(* Interrupted runs, frame and probe results *)

\* C16: a run that has ended either completed all four probes, or was
\* interrupted from outside, and then it printed no score, no verdict and
\* no recommendation.
C16_CompletedOrInterrupted ==
    pc = "exited"
    => \/ /\ exc = NoExc
          /\ \E i \in 1..Len(Events(stdout)) : Events(stdout)[i] = "ssl:end"
       \/ /\ exc = "KeyboardInterrupt"
          /\ ~ScorePrinted
          /\ VerdictOf(stdout) = "none"
          /\ RecLines(stdout) = <<>>

\* the key the block at position p of main() records under, "" if none
KeyOfBlock(p) ==
    CASE p = "dashboard" -> "dashboard_ui"
      [] p = "manager" -> "manager_api"
      [] p = "indexer" -> "indexer_api"
      [] p = "ssl" -> "ssl_validation"
      [] OTHER -> ""

\* a line with this text has been printed
Printed(text) == \E i \in 1..Len(stdout) : stdout[i].text = text

\* all four probe blocks have run to their end
AllProbed == pc \in {"score", "recommend", "final", "returned"}
             \/ (pc = "exited" /\ exc = NoExc)

\* C17: a step of the run changes at most the one key of the probe block it
\* executes and leaves the other three entries as they were; once all four
\* probes are done, each entry is True exactly when its own probe
\* succeeded, whatever the other probes did.
C17_OneKeyPerProbe ==
    /\ [][\A c \in ComponentSet :
            health_status'[c] # health_status[c] => c = KeyOfBlock(pc)]_vars
    /\ [](AllProbed
          => /\ health_status["dashboard_ui"] <=> Printed("Dashboard UI: Accessible")
             /\ health_status["manager_api"] <=> Printed("Manager API: Healthy")
             /\ health_status["indexer_api"] <=> Printed("Indexer API: Healthy")
             /\ health_status["ssl_validation"] <=> Printed("All endpoints use HTTPS"))

\* C17 witness: after all four probes, with the first and third succeeded
\* and the second and fourth failed
C17_Witness ==
    /\ pc = "score"
    /\ health_status["dashboard_ui"] /\ ~health_status["manager_api"]
    /\ health_status["indexer_api"] /\ ~health_status["ssl_validation"]
    /\ Printed("Manager API: Unhealthy") /\ Printed("SSL issues found with")

\* an HTTP probe has just returned to main: the block after it is next
HttpProbeReturned == pc \in {"manager", "indexer", "ssl"}

\* the key of the HTTP probe that has just returned
KeyJustProbed ==
    CASE pc = "manager" -> "dashboard_ui"
      [] pc = "indexer" -> "manager_api"
      [] pc = "ssl" -> "indexer_api"

\* C18: an HTTP probe reports Healthy exactly when its request returned a
\* response with status code 200; any other status code gives Unhealthy
\* with detail "HTTP <code>"; a timeout gives Unhealthy; the component's key
\* is True exactly on the Healthy outcome.
C18_HealthyIffStatus200 ==
    HttpProbeReturned
    => /\ accessible <=> (response.kind = "Response" /\ response.status_code = 200)
       /\ (response.kind = "Response" /\ response.status_code = 404)
          => (~accessible /\ error = <<"HTTP 404">> /\ status_code = 404)
       /\ (response.kind = "Response" /\ response.status_code = 201)
          => (~accessible /\ error = <<"HTTP 201">> /\ status_code = 201)
       /\ (response.kind = "Raise"
           /\ response.cls \in {"ReadTimeout", "ConnectTimeout"})
          => (~accessible /\ error # None)
       /\ health_status[KeyJustProbed] <=> accessible

\* C18 witness: the manager API answered 404 and was recorded Unhealthy
C18_Witness ==
    /\ pc = "indexer"
    /\ response.kind = "Response" /\ response.status_code = 404
    /\ error = <<"HTTP 404">>
    /\ ~health_status["manager_api"]

\* the three HTTP probes ran to their end and the SSL check followed
SslChecked == AllProbed

\* C19: ssl_validation is True exactly when the dashboard URL, the manager
\* API URL and the indexer URL all have scheme https, whether or not any
\* endpoint answered.
C19_SslIffAllHttps ==
    SslChecked
    => /\ health_status["ssl_validation"]
          <=> /\ config["dashboard_url"].scheme = "https"
              /\ config["manager_api_url"].scheme = "https"
              /\ config["indexer_url"].scheme = "https"
       /\ health_status["ssl_validation"] <=> ssl_issues = <<>>

\* C19 witness: no endpoint answered 200 and ssl_validation is True
C19_Witness ==
    /\ pc = "score"
    /\ health_status["ssl_validation"]
    /\ ~health_status["dashboard_ui"]
    /\ ~health_status["manager_api"]
    /\ ~health_status["indexer_api"]

-----------------------------------------------------------------------------
(* run_tests.main: one invocation of the test runner *)

\* the run_* function of each selection flag (lines 71-140)
SuiteOf ==
    [f \in Flags \ {"install_deps"} |->
        CASE f = "ui" -> "run_ui_tests"
          [] f = "api" -> "run_api_tests"
          [] f = "integration" -> "run_integration_tests"
          [] f = "quick" -> "run_quick_tests"
          [] f = "health" -> "run_health_check"
          [] f = "all" -> "run_all_tests"]

\* the dispatch with every elif written as if: each selected suite is run
SelectSuiteNoElif(a) ==
    LET pick(f) == IF a[f] THEN <<SuiteOf[f]>> ELSE <<>>
        picked == pick("ui") \o pick("api") \o pick("integration")
                  \o pick("quick") \o pick("health") \o pick("all")
    IN IF picked = <<>> THEN <<"run_health_check">> ELSE picked

\* the if/elif chain of lines 197-212: the run_* functions main calls
SelectSuite(a) ==
    IF a["ui"] THEN <<"run_ui_tests">>
    ELSE IF a["api"] THEN <<"run_api_tests">>
    ELSE IF a["integration"] THEN <<"run_integration_tests">>
    ELSE IF a["quick"] THEN <<"run_quick_tests">>
    ELSE IF a["health"] THEN <<"run_health_check">>
    ELSE IF a["all"] THEN <<"run_all_tests">>
    ELSE <<"run_health_check">>

\* what subprocess.run(cmd, check=True) can do inside run_command: return,
\* raise CalledProcessError (caught, line 27), or raise OSError when the
\* program of cmd cannot be started (not caught)
RunOutcomes == {"returned", "CalledProcessError", "OSError"}

\* what run_command gives its caller for each outcome of subprocess.run
\* (lines 26 and 35), "raised" when the exception is not caught
ResultOf(o) ==
    CASE o = "returned" -> "True"
      [] o = "CalledProcessError" -> "False"
      [] o = "OSError" -> "raised"

\* state at line 170: the flags are parsed, nothing has been run
InitRunner ==
    /\ SummaryIdle
    /\ config = [k \in ConfigKeys |-> [scheme |-> "https", valid_netloc |-> TRUE]]
    /\ health_status = [c \in ComponentSet |-> FALSE]
    /\ pc = "idle"
    /\ accessible = FALSE
    /\ response_time = 0
    /\ status_code = 0
    /\ error = None
    /\ ssl_issues = <<>>
    /\ healthy_components = 0
    /\ total_components = 0
    /\ health_score = Unbound
    /\ stdout = <<>>
    /\ calls = <<>>
    /\ exc = NoExc
    /\ exit_code = None
    /\ response = NoResponse
    /\ prev = <<>>
    /\ name_arg = ""
    /\ args \in [Flags -> BOOLEAN]
    /\ runner_pc = "start"
    /\ commands = <<>>
    /\ success = TRUE
    /\ call_result = "unset"
    /\ runner_exit = None

\* lines 172-181: --install-deps runs pip install and nothing else
InstallDeps ==
    /\ runner_pc = "start"
    /\ args["install_deps"]
    /\ commands' = Append(commands, "pip install")
    /\ \E o \in RunOutcomes :
          /\ call_result' = ResultOf(o)
          /\ IF o = "returned"
             THEN runner_pc' = "returned" /\ runner_exit' = <<0>>
             ELSE runner_pc' = "exited" /\ runner_exit' = <<1>>
    /\ UNCHANGED <<args, success, runVars, prev, name_arg, summaryVars>>

\* lines 183-187: check_dependencies (37-50) returns True or False
CheckDependencies ==
    /\ runner_pc = "start"
    /\ ~args["install_deps"]
    /\ \E available \in BOOLEAN :
          IF available
          THEN /\ call_result' = "True"
               /\ runner_pc' = "setup" /\ UNCHANGED runner_exit
          ELSE /\ call_result' = "False"
               /\ runner_pc' = "exited" /\ runner_exit' = <<1>>
    /\ UNCHANGED <<args, commands, success, runVars, prev, name_arg, summaryVars>>

\* lines 189-192: setup_environment (52-69) returns True, or its mkdir raises
SetupEnvironment ==
    /\ runner_pc = "setup"
    /\ \E raised \in BOOLEAN :
          IF raised
          THEN /\ call_result' = "raised"
               /\ runner_pc' = "exited" /\ runner_exit' = <<1>>
          ELSE /\ call_result' = "True"
               /\ runner_pc' = "dispatch" /\ UNCHANGED runner_exit
    /\ UNCHANGED <<args, commands, success, runVars, prev, name_arg, summaryVars>>

RECURSIVE RunSuites(_, _, _, _)
\* the run_* calls of the dispatch, in order: each appends its command and
\* and-s the result of run_command into success; an OSError ends main
RunSuites(suites, cmds, ok, last) ==
    IF suites = <<>>
    THEN {[commands |-> cmds, success |-> ok, result |-> last]}
    ELSE UNION { IF o = "OSError"
                 THEN {[commands |-> Append(cmds, Head(suites)),
                        success |-> ok, result |-> ResultOf(o)]}
                 ELSE RunSuites(Tail(suites), Append(cmds, Head(suites)),
                                ok /\ (o = "returned"), ResultOf(o))
                 : o \in RunOutcomes }

\* lines 194-212: success = True, then the selected suite is run
Dispatch ==
    /\ runner_pc = "dispatch"
    /\ \E r \in RunSuites(SelectSuite(args), commands, TRUE, call_result) :
          /\ commands' = r.commands
          /\ success' = r.success
          /\ call_result' = r.result
          /\ IF r.result = "raised"
             THEN runner_pc' = "exited" /\ runner_exit' = <<1>>
             ELSE runner_pc' = "summary" /\ UNCHANGED runner_exit
    /\ UNCHANGED <<args, runVars, prev, name_arg, summaryVars>>

\* the summary that returns whatever success holds
RunnerSummaryAlwaysReturns ==
    /\ runner_pc = "summary"
    /\ runner_pc' = "returned" /\ runner_exit' = <<0>>
    /\ UNCHANGED <<args, commands, success, call_result, runVars, prev,
                   name_arg, summaryVars>>

\* lines 214-221: return when success, sys.exit(1) otherwise
RunnerSummary ==
    /\ runner_pc = "summary"
    /\ IF success
       THEN runner_pc' = "returned" /\ runner_exit' = <<0>>
       ELSE runner_pc' = "exited" /\ runner_exit' = <<1>>
    /\ UNCHANGED <<args, commands, success, call_result, runVars, prev,
                   name_arg, summaryVars>>

NextRunner ==
    \/ InstallDeps
    \/ CheckDependencies
    \/ SetupEnvironment
    \/ Dispatch
    \/ RunnerSummary

SpecRunner == InitRunner /\ [][NextRunner]_vars

\* the selection flags in the order the claim gives
FlagOrder == <<"ui", "api", "integration", "quick", "health", "all">>

\* the suite the claim expects: that of the first given flag of FlagOrder,
\* the health check when none is given
ExpectedSuite ==
    LET given == {i \in DOMAIN FlagOrder : args[FlagOrder[i]]}
    IN IF given = {}
       THEN "run_health_check"
       ELSE SuiteOf[FlagOrder[CHOOSE i \in given : \A j \in given : i <= j]]

\* the dispatch step starts with nothing run and runs the expected suite
DispatchRunsExpected ==
    runner_pc = "dispatch"
    => (commands = <<>> /\ commands' = <<ExpectedSuite>>)

\* past the dispatch step no further command is run
NothingRunAfterDispatch ==
    runner_pc \in {"summary", "returned", "exited"} => UNCHANGED commands

\* C20: an invocation that reaches the dispatch step runs exactly one suite:
\* that of the first given flag in the order ui, api, integration, quick,
\* health, all, and the health check when no flag is given; nothing is run
\* before the dispatch and nothing after it.
C20_ExactlyOneSuite ==
    /\ [][DispatchRunsExpected]_vars
    /\ [][NothingRunAfterDispatch]_vars

\* C20 witness: --api and --all were both given and only the API suite ran
C20_Witness ==
    /\ runner_pc = "summary"
    /\ args["api"] /\ args["all"] /\ ~args["ui"]
    /\ commands = <<"run_api_tests">>

\* main is over: it returned or the process exited
RunnerOver == runner_pc \in {"returned", "exited"}

\* a suite was handed to run_command
SuiteRun == \E i \in DOMAIN commands : commands[i] # "pip install"

\* C21: the runner exits with status 1 whenever the selected suite's command
\* fails and returns normally when it succeeds; a failed dependency check
\* exits with status 1 before any suite is run; with --install-deps only the
\* install command is run, never a suite, and a failed install exits 1.
C21_RunnerExitStatus ==
    /\ (~args["install_deps"] /\ SuiteRun /\ call_result = "False")
       => /\ runner_pc \in {"summary", "exited"}
          /\ RunnerOver => runner_exit = <<1>>
    /\ (~args["install_deps"] /\ SuiteRun /\ call_result = "True")
       => /\ runner_pc \in {"summary", "returned"}
          /\ RunnerOver => runner_exit = <<0>>
    /\ (~args["install_deps"] /\ ~SuiteRun /\ call_result = "False")
       => /\ runner_pc = "exited"
          /\ runner_exit = <<1>>
          /\ commands = <<>>
    /\ args["install_deps"]
       => /\ ~SuiteRun
          /\ commands \in {<<>>, <<"pip install">>}
          /\ call_result = "False"
             => (runner_pc = "exited" /\ runner_exit = <<1>>)
          /\ call_result = "True"
             => (runner_pc = "returned" /\ runner_exit = <<0>>)
          /\ RunnerOver => commands = <<"pip install">>

\* C21 witness: the UI suite's command failed and the runner exited with 1
C21_Witness ==
    /\ runner_pc = "exited"
    /\ commands = <<"run_ui_tests">>
    /\ call_result = "False"
    /\ runner_exit = <<1>>

-----------------------------------------------------------------------------
(* test_system_health_summary beside main, on the same probe outcomes *)

\* the keys of the test's health_status literal (lines 134-139), in order
SummaryComponents ==
    <<"dashboard_ui", "manager_api", "indexer_api", "ssl_connections">>

\* the hint the test prints for each key (lines 191-198)
SummaryHints ==
    [k \in {SummaryComponents[i] : i \in DOMAIN SummaryComponents} |->
        CASE k = "dashboard_ui" ->
               "Check dashboard service status and network connectivity"
          [] k = "manager_api" ->
               "Verify manager service is running and API is accessible"
          [] k = "indexer_api" ->
               "Check indexer service status and cluster health"
          [] k = "ssl_connections" ->
               "Verify SSL certificates and network configuration"]

\* lines 189-198: the hints of the keys that are False, when below 100
RECURSIVE SummaryHintLines(_, _)
SummaryHintLines(d, i) ==
    IF i > Len(SummaryComponents) THEN <<>>
    ELSE (IF d[SummaryComponents[i]] THEN <<>>
          ELSE <<Line(SummaryHints[SummaryComponents[i]], <<>>)>>)
         \o SummaryHintLines(d, i + 1)

\* both functions at the point where their four probes are done (main line
\* 122, the test line 180), the i-th key of each holding the same outcome
InitAgree ==
    /\ FreshLocals
    /\ name_arg = ""
    /\ pc = "score"
    /\ \E o \in [DOMAIN Components -> BOOLEAN] :
          /\ health_status =
                [c \in ComponentSet |->
                    o[CHOOSE i \in DOMAIN Components : Components[i] = c]]
          /\ summary_status =
                [k \in {SummaryComponents[i] : i \in DOMAIN SummaryComponents} |->
                    o[CHOOSE i \in DOMAIN SummaryComponents :
                         SummaryComponents[i] = k]]
    /\ summary_score = Unbound
    /\ summary_stdout = <<>>
    /\ summary_pc = "score"

\* lines 182-198 of the test: the score, its line and the recommendations
SummaryScore ==
    /\ summary_pc = "score"
    /\ LET healthy == SumValues(summary_status)
           total == DictLen(summary_status)
           score == Times(TrueDiv(healthy, total), 100)
       IN  /\ summary_score' = score
           /\ summary_stdout' = summary_stdout
                \o <<Line("System Health Score",
                          <<Format1f(score), healthy, total>>)>>
                \o (IF Lt(score, 100)
                    THEN <<Line("Recommendations", <<>>)>>
                         \o SummaryHintLines(summary_status, 1)
                    ELSE <<>>)
    /\ summary_pc' = "assert"
    /\ UNCHANGED <<summary_status, runVars, prev, name_arg, runnerVars>>

\* the assertion with its threshold at 50
SummaryAssertAtHalf ==
    /\ summary_pc = "assert"
    /\ summary_pc' = IF Ge(summary_score, 50) THEN "passed" ELSE "AssertionError"
    /\ UNCHANGED <<summary_status, summary_score, summary_stdout, runVars,
                   prev, name_arg, runnerVars>>

\* line 202 of the test: assert health_score >= 75
SummaryAssert ==
    /\ summary_pc = "assert"
    /\ summary_pc' = IF Ge(summary_score, 75) THEN "passed" ELSE "AssertionError"
    /\ UNCHANGED <<summary_status, summary_score, summary_stdout, runVars,
                   prev, name_arg, runnerVars>>

NextAgree ==
    \/ CalculateScore
    \/ Recommendations
    \/ FinalStatus
    \/ SysExit
    \/ SummaryScore
    \/ SummaryAssert

SpecAgree == InitAgree /\ [][NextAgree]_vars

\* the test's assertion has been evaluated
SummaryAsserted == summary_pc \in {"passed", "AssertionError"}

\* C22: on the same four probe outcomes test_system_health_summary computes
\* the same health score as main, and its assertion passes exactly when main
\* returns 0, which is when at least three of the four components are
\* Healthy.
C22_AggregatorsAgree ==
    /\ (health_score # Unbound /\ summary_score # Unbound)
       => /\ health_score.num * summary_score.den
             = summary_score.num * health_score.den
          /\ Format1f(health_score) = Format1f(summary_score)
    /\ (SummaryAsserted /\ exit_code # None)
       => ((summary_pc = "passed") <=> (exit_code = <<0>>))
    /\ SummaryAsserted
       => ((summary_pc = "passed") <=> (SumValues(summary_status) >= 3))
    /\ exit_code # None
       => ((exit_code = <<0>>) <=> (SumValues(health_status) >= 3))

\* C22 witness: two of four Healthy, the test fails and main returns 1
C22_Witness ==
    /\ summary_pc = "AssertionError"
    /\ pc = "exited"
    /\ exit_code = <<1>>
    /\ SumValues(health_status) = 2
    /\ health_score = summary_score

-----------------------------------------------------------------------------
(* The exit status of the process *)

\* map b is map a with exactly one more key True
OneMoreHealthy(a, b) ==
    /\ \A c \in ComponentSet : a[c] => b[c]
    /\ SumValues(b) = SumValues(a) + 1

\* the run is over and it was not cut short by an exception
Completed == pc = "exited" /\ exc = NoExc

\* C23: the exit status is always 0, 1 or 2; 0 only after a completed run
\* with verdict Healthy, 2 only after a completed run with verdict
\* Unhealthy; a completed Degraded run, a user interrupt and any unexpected
\* exception give 1; a completed run with one more component Healthy than
\* another never has the larger exit code.
C23_ExitStatus ==
    /\ exit_code \in {None, <<0>>, <<1>>, <<2>>}
    /\ pc = "exited"
       => /\ exit_code # None
          /\ exit_code = <<0>> => (exc = NoExc /\ VerdictOf(stdout) = "Healthy")
          /\ exit_code = <<2>> => (exc = NoExc /\ VerdictOf(stdout) = "Unhealthy")
          /\ (exc = NoExc /\ VerdictOf(stdout) = "Degraded") => exit_code = <<1>>
          /\ exc # NoExc => exit_code = <<1>>
    /\ (Completed /\ prev # <<>>
        /\ OneMoreHealthy(prev[1].health_status, health_status))
       => exit_code[1] <= prev[1].exit_code[1]
    /\ Completed
       => \A c \in ComponentSet :
             ~health_status[c]
             => Classify(ComputeScore(SumValues(DictSet(health_status, c, TRUE)),
                                      DictLen(health_status))).ret
                <= exit_code[1]

\* C23 witness: a Degraded run that exited 1, then a run with one more
\* component Healthy that exited 0
C23_Witness ==
    /\ Completed /\ prev # <<>>
    /\ OneMoreHealthy(prev[1].health_status, health_status)
    /\ prev[1].exit_code = <<1>>
    /\ exit_code = <<0>>

====
